---- MODULE Spec2Model ----
(***************************************************************************)
(* Model of program/world.py: Position, Agent, Zone (the process-wide      *)
(* Zone.ZONES grid, its lazy construction and the index lookup) and        *)
(* BaseGraph._stat_by_age.                                                 *)
(*                                                                         *)
(* Numbers.  A coordinate in degrees is a multiple of 1/Res degree and is  *)
(* held as that integer multiple (Deg(k) is k degrees).  A radian value is *)
(* held in units of 10^-4 rad, rounded down.  The result of a true         *)
(* division is held as the reduced fraction [num, den] it denotes.         *)
(*                                                                         *)
(* Exceptions.  An operation that can raise returns [raised, value]:       *)
(* raised is "" when it returned normally, else the exception's name.      *)
(***************************************************************************)
EXTENDS Integers, Sequences, FiniteSets, TLC

\* ---------------------------------------------------------------- bounds
Res == 2
MaxAgents == 2

\* ------------------------------------------------------ program constants
MIN_LONGITUDE_DEGREES == -180
MAX_LONGITUDE_DEGREES == 180
MIN_LATITUDE_DEGREES == -90
MAX_LATITUDE_DEGREES == 90
WIDTH_DEGREES == 1
HEIGHT_DEGREES == 1
\* math.pi, in units of 10^-4
PI_E4 == 31416

\* --------------------------------------------------------- Python helpers
None == [type |-> "NoneType"]

Return(v) == [raised |-> "", value |-> v]

Raise(e) == [raised |-> e, value |-> None]

Deg(k) == k * Res

Min(a, b) == IF a <= b THEN a ELSE b

Max(a, b) == IF a >= b THEN a ELSE b

\* int(num / den) for den > 0: truncation toward zero
PyInt(num, den) == IF num >= 0 THEN num \div den ELSE -((-num) \div den)

\* range(start, stop, step) for step > 0, as a sequence
PyRange(start, stop, step) ==
    [k \in 1..Max(0, (stop - start + step - 1) \div step) |-> start + (k - 1) * step]

\* x or y on integers
PyOr(x, y) == IF x # 0 THEN x ELSE y

RECURSIVE GCD(_, _)
GCD(a, b) == IF b = 0 THEN a ELSE GCD(b, a % b)

\* a / b (true division) of integers a >= 0, b > 0
TrueDiv(a, b) == LET g == GCD(a, b) IN [num |-> a \div g, den |-> b \div g]

\* the integer n as a number
Num(n) == [num |-> n, den |-> 1]

\* defaultdict lookup: a missing key reads as 0
DictGet(d, k) == IF k \in DOMAIN d THEN d[k] ELSE 0

\* variant: d[k] = amount
DictAddOverwrite(d, k, amount) ==
    [x \in DOMAIN d \cup {k} |-> IF x = k THEN amount ELSE d[x]]

\* d[k] += amount on a defaultdict
DictAdd(d, k, amount) ==
    [x \in DOMAIN d \cup {k} |-> IF x = k THEN DictGet(d, k) + amount ELSE d[x]]

\* ---------------------------------------------------------------- Position
\* variant: the latitude is asserted against the longitude's range
PositionLatitudeCheckedAsLongitude(longitude_degrees, latitude_degrees) ==
    IF ~(Deg(-180) <= longitude_degrees /\ longitude_degrees <= Deg(180))
    THEN Raise("AssertionError")
    ELSE IF ~(Deg(-180) <= latitude_degrees /\ latitude_degrees <= Deg(180))
    THEN Raise("AssertionError")
    ELSE Return([longitude_degrees |-> longitude_degrees,
                 latitude_degrees |-> latitude_degrees])

\* Position(longitude_degrees, latitude_degrees): the two asserts, then the object
Position(longitude_degrees, latitude_degrees) ==
    IF ~(Deg(-180) <= longitude_degrees /\ longitude_degrees <= Deg(180))
    THEN Raise("AssertionError")
    ELSE IF ~(Deg(-90) <= latitude_degrees /\ latitude_degrees <= Deg(90))
    THEN Raise("AssertionError")
    ELSE Return([longitude_degrees |-> longitude_degrees,
                 latitude_degrees |-> latitude_degrees])

\* degrees * math.pi / 180
Radians(degrees) == (degrees * PI_E4) \div (180 * Res)

longitude(position) == Radians(position.longitude_degrees)

latitude(position) == Radians(position.latitude_degrees)

\* ------------------------------------------------------------------- Agent
Agent(position, properties) == [position |-> position, properties |-> properties]

hasattr(agent, name) == name = "position" \/ name \in DOMAIN agent.properties

getattr(agent, name) ==
    IF name = "position" THEN Return(agent.position)
    ELSE IF name \in DOMAIN agent.properties THEN Return(agent.properties[name])
    ELSE Raise("AttributeError")

\* -------------------------------------------------------------------- Zone
Zone(corner1, corner2) ==
    [corner1 |-> corner1, corner2 |-> corner2, inhabitants |-> <<>>]

population(zone) == Len(zone.inhabitants)

\* variant: an inhabitant already in the zone is not appended again
add_inhabitant_dedup(zone, inhabitant) ==
    IF \E j \in 1..Len(zone.inhabitants) : zone.inhabitants[j] = inhabitant
    THEN zone
    ELSE [zone EXCEPT !.inhabitants = Append(@, inhabitant)]

add_inhabitant(zone, inhabitant) ==
    [zone EXCEPT !.inhabitants = Append(@, inhabitant)]

RECURSIVE SumSeq(_)
SumSeq(s) == IF s = <<>> THEN 0 ELSE Head(s) + SumSeq(Tail(s))

\* variant: the sum is returned without the division by the population
average_agreeableness_undivided(zone) ==
    IF zone.inhabitants = <<>> THEN Return(Num(0))
    ELSE IF \E j \in 1..Len(zone.inhabitants) :
                ~hasattr(zone.inhabitants[j], "agreeableness")
    THEN Raise("AttributeError")
    ELSE Return(Num(SumSeq([j \in 1..Len(zone.inhabitants) |->
                        getattr(zone.inhabitants[j], "agreeableness").value])))

\* an inhabitant without the attribute makes the read raise AttributeError
average_agreeableness(zone) ==
    IF zone.inhabitants = <<>> THEN Return(Num(0))
    ELSE IF \E j \in 1..Len(zone.inhabitants) :
                ~hasattr(zone.inhabitants[j], "agreeableness")
    THEN Raise("AttributeError")
    ELSE Return(TrueDiv(SumSeq([j \in 1..Len(zone.inhabitants) |->
                            getattr(zone.inhabitants[j], "agreeableness").value]),
                        population(zone)))

\* variant: the upper bounds are inclusive
contains_closed(zone, position) ==
    /\ longitude(position) >= Min(longitude(zone.corner1), longitude(zone.corner2))
    /\ longitude(position) <= Max(longitude(zone.corner1), longitude(zone.corner2))
    /\ latitude(position) >= Min(latitude(zone.corner1), latitude(zone.corner2))
    /\ latitude(position) <= Max(latitude(zone.corner1), latitude(zone.corner2))

\* the comparisons are made on the radian values
contains(zone, position) ==
    /\ longitude(position) >= Min(longitude(zone.corner1), longitude(zone.corner2))
    /\ longitude(position) < Max(longitude(zone.corner1), longitude(zone.corner2))
    /\ latitude(position) >= Min(latitude(zone.corner1), latitude(zone.corner2))
    /\ latitude(position) < Max(latitude(zone.corner1), latitude(zone.corner2))

\* ----------------------------------------------------- _initialize_zones
LatitudeRange == PyRange(MIN_LATITUDE_DEGREES, MAX_LATITUDE_DEGREES, HEIGHT_DEGREES)

LongitudeRange == PyRange(MIN_LONGITUDE_DEGREES, MAX_LONGITUDE_DEGREES, WIDTH_DEGREES)

\* one pass of the loop body for (latitude, longitude), both in whole degrees
CellZone(latitude_deg, longitude_deg) ==
    LET bottom_left_corner == Position(Deg(longitude_deg), Deg(latitude_deg)).value
        top_right_corner == Position(Deg(longitude_deg + WIDTH_DEGREES),
                                     Deg(latitude_deg + HEIGHT_DEGREES)).value
    IN Zone(bottom_left_corner, top_right_corner)

\* the zones the inner loop appends for one latitude
InnerLoop(latitude_deg) ==
    [j \in 1..Len(LongitudeRange) |-> CellZone(latitude_deg, LongitudeRange[j])]

RECURSIVE OuterLoop(_)
OuterLoop(k) ==
    IF k > Len(LatitudeRange) THEN <<>>
    ELSE InnerLoop(LatitudeRange[k]) \o OuterLoop(k + 1)

\* the zones appended when the loop over longitudes is the outer one
AppendedZonesLongitudeMajor ==
    [i \in 1..(Len(LongitudeRange) * Len(LatitudeRange)) |->
        CellZone(LatitudeRange[((i - 1) % Len(LatitudeRange)) + 1],
                 LongitudeRange[((i - 1) \div Len(LatitudeRange)) + 1])]

\* everything the two loops append, in order
AppendedZones == OuterLoop(1)

\* _initialize_zones from a class whose list is zones: the list it leaves
\* variant: the list is not emptied first
initialize_zones_without_clear(zones) == zones \o AppendedZones

initialize_zones(zones) ==
    LET cleared == <<>>
    IN cleared \o AppendedZones

\* ------------------------------------------------ the list Zone.ZONES
\* The list is held by its length and the zones that differ from the zone
\* _initialize_zones puts at that index; every other element is read from
\* AppendedZones.  ZoneList and ListItems convert from and to the sequence.
ZoneList(seq) ==
    LET differing == IF seq = AppendedZones THEN {}
                     ELSE {j \in 1..Len(seq) :
                             j > Len(AppendedZones) \/ seq[j] # AppendedZones[j]}
    IN [len |-> Len(seq), diff |-> [i \in differing |-> seq[i]]]

EmptyList == ZoneList(<<>>)

\* element i of the list, i in 1..len
ListGet(list, i) == IF i \in DOMAIN list.diff THEN list.diff[i] ELSE AppendedZones[i]

ListItems(list) == [i \in 1..list.len |-> ListGet(list, i)]

\* the list with element i replaced by z
ListSet(list, i, z) ==
    LET same == i <= Len(AppendedZones) /\ z = AppendedZones[i]
        keys == IF same THEN DOMAIN list.diff \ {i} ELSE DOMAIN list.diff \cup {i}
    IN [list EXCEPT !.diff = [x \in keys |-> IF x = i THEN z ELSE list.diff[x]]]

\* list[index] with Python's indexing: where the element is, or 0 (IndexError)
PyListIndex(list, index) ==
    IF 0 <= index /\ index < list.len THEN index + 1
    ELSE IF -list.len <= index /\ index < 0 THEN list.len + index + 1
    ELSE 0

AppendedOccupied ==
    {i \in 1..Len(AppendedZones) : AppendedZones[i].inhabitants # <<>>}

\* the indices of the zones of the list that have inhabitants
Occupied(list) ==
    {i \in DOMAIN list.diff : list.diff[i].inhabitants # <<>>}
        \cup {i \in AppendedOccupied : i <= list.len /\ i \notin DOMAIN list.diff}

RECURSIVE InhabitantsOf(_, _)
InhabitantsOf(list, indices) ==
    IF indices = {} THEN <<>>
    ELSE LET i == CHOOSE x \in indices : \A y \in indices : x <= y
         IN ListGet(list, i).inhabitants \o InhabitantsOf(list, indices \ {i})

\* the inhabitants in the order the loops over zones and inhabitants meet them
AllInhabitants(list) == InhabitantsOf(list, Occupied(list))

TotalPopulation(list) == Len(AllInhabitants(list))

\* ------------------------------------------------ find_zone_that_contains
\* variant: the grid is rebuilt at every lookup
zones_always_initialized(list) == ZoneList(initialize_zones(ListItems(list)))

\* "if not cls.ZONES: cls._initialize_zones()"
zones_initialized_if_empty(list) ==
    IF list.len = 0 THEN ZoneList(initialize_zones(ListItems(list))) ELSE list

\* the zone_index the lookup computes
zone_index_of(position) ==
    LET longitude_index ==
            PyInt(position.longitude_degrees - Deg(MIN_LONGITUDE_DEGREES),
                  Deg(WIDTH_DEGREES))
        latitude_index ==
            PyInt(position.latitude_degrees - Deg(MIN_LATITUDE_DEGREES),
                  Deg(HEIGHT_DEGREES))
        longitude_bins ==
            PyInt(MAX_LONGITUDE_DEGREES - MIN_LONGITUDE_DEGREES, WIDTH_DEGREES)
    IN latitude_index * longitude_bins + longitude_index

\* [zones: the class's list afterwards, raised, value: where the returned
\*  zone is in that list (0 when it raised)]
find_zone_that_contains(list, position) ==
    LET zones == zones_initialized_if_empty(list)
        at == PyListIndex(zones, zone_index_of(position))
    IN IF at = 0
       THEN [zones |-> zones, raised |-> "IndexError", value |-> 0]
       ELSE IF ~contains(ListGet(zones, at), position)
       THEN [zones |-> zones, raised |-> "AssertionError", value |-> 0]
       ELSE [zones |-> zones, raised |-> "", value |-> at]

\* --------------------------------------------------- BaseGraph._stat_by_age
\* the loop body for people[k], people[k+1], ...; acc holds the two dicts
RECURSIVE CountLoop(_, _, _, _)
CountLoop(people, k, property_name, acc) ==
    IF k > Len(people) \/ acc.raised # "" THEN acc
    ELSE LET inhabitant == people[k]
             age == getattr(inhabitant, "age")
             stat == getattr(inhabitant, property_name)
         IN IF age.raised # "" \/ stat.raised # ""
            THEN [acc EXCEPT !.raised = "AttributeError"]
            ELSE CountLoop(people, k + 1, property_name,
                    [acc EXCEPT
                        !.stat_by_age = DictAdd(@, age.value, stat.value),
                        !.population_by_age = DictAdd(@, age.value, 1)])

stat_by_age(list, property_name) ==
    LET acc == CountLoop(AllInhabitants(list), 1, property_name,
                         [stat_by_age |-> <<>>, population_by_age |-> <<>>,
                          raised |-> ""])
        ages == PyRange(0, 100, 1)
    IN IF acc.raised # "" THEN Raise(acc.raised)
       ELSE Return([x_values |-> PyRange(0, 100, 1),
                    y_values |-> [n \in 1..Len(ages) |->
                        TrueDiv(DictGet(acc.stat_by_age, ages[n]),
                                PyOr(DictGet(acc.population_by_age, ages[n]), 1))]])

\* ------------------------------------------------------------------ inputs
\* coordinates handed to Position(): <<longitude, latitude>>
TestCoordinates ==
    { <<Deg(-180), Deg(-90)>>, <<Deg(100) + 1, Deg(33) + 1>>,
      <<Deg(180), Deg(33) + 1>>,
      <<Deg(100) + 1, Deg(90)>>,
      <<Deg(190), Deg(10)>>, <<Deg(100), Deg(100)>>,
      <<Deg(-180) - 1, Deg(0)>>, <<Deg(0), Deg(-90) - 1>> }

GridLongitudes ==
    { Deg(-180) - 1, Deg(-180), Deg(-180) + 1, Deg(100), Deg(100) + 1,
      Deg(180) - 1, Deg(180), Deg(180) + 1 }

GridLatitudes ==
    { Deg(-90) - 1, Deg(-90), Deg(-90) + 1, Deg(33), Deg(90) - 1, Deg(90),
      Deg(90) + 1 }

GridCoordinates == GridLongitudes \X GridLatitudes

\* keyword properties handed to Agent()
TestProperties ==
    { [age |-> 20, income |-> 40, agreeableness |-> 1],
      [age |-> 100, income |-> 10, agreeableness |-> 4],
      [age |-> 20, income |-> 15] }

PropertyNames == {"income", "agreeableness"}

\* ------------------------------------------------------------------- state
\* ZONES     Zone.ZONES
\* position  the Position at hand (None: none), zone: where in ZONES the zone
\*           at hand is (0: none)
\* result    the last call: its name, its arguments, what it raised or
\*           returned.  For _initialize_zones and the reset, args holds the
\*           number of inhabitants the replaced list had.
VARIABLES ZONES, position, zone, result

vars == <<ZONES, position, zone, result>>

Init ==
    /\ ZONES = EmptyList
    /\ position = None
    /\ zone = 0
    /\ result = [op |-> "", args |-> <<>>, raised |-> "", value |-> None]

\* position = Position(longitude, latitude)
NewPosition(longitude_degrees, latitude_degrees) ==
    /\ position = None
    /\ LET r == Position(longitude_degrees, latitude_degrees)
       IN /\ position' = r.value
          /\ result' = [op |-> "Position",
                        args |-> <<longitude_degrees, latitude_degrees>>,
                        raised |-> r.raised, value |-> r.value]
    /\ zone' = 0
    /\ UNCHANGED ZONES

\* zone = Zone.find_zone_that_contains(position)
FindZone ==
    /\ position # None
    /\ zone = 0
    /\ LET r == find_zone_that_contains(ZONES, position)
       IN /\ ZONES' = r.zones
          /\ zone' = r.value
          /\ position' = IF r.raised = "" THEN position ELSE None
          /\ result' = [op |-> "find_zone_that_contains", args |-> <<position>>,
                        raised |-> r.raised, value |-> r.value]

\* agent = Agent(position, **properties); zone.add_inhabitant(agent)
AddInhabitant(properties) ==
    /\ zone # 0
    /\ TotalPopulation(ZONES) < MaxAgents
    /\ LET agent == Agent(position, properties)
       IN /\ ZONES' = ListSet(ZONES, zone, add_inhabitant(ListGet(ZONES, zone), agent))
          /\ result' = [op |-> "add_inhabitant", args |-> <<zone, agent>>,
                        raised |-> "", value |-> None]
    /\ position' = None
    /\ zone' = 0

\* zone.average_agreeableness()
AverageAgreeableness ==
    /\ zone # 0
    /\ LET r == average_agreeableness(ListGet(ZONES, zone))
       IN result' = [op |-> "average_agreeableness", args |-> <<zone>>,
                     raised |-> r.raised, value |-> r.value]
    /\ position' = None
    /\ zone' = 0
    /\ UNCHANGED ZONES

\* Zone._initialize_zones()
InitializeZones ==
    /\ position = None
    /\ ZONES' = ZoneList(initialize_zones(ListItems(ZONES)))
    /\ result' = [op |-> "_initialize_zones", args |-> <<TotalPopulation(ZONES)>>,
                  raised |-> "", value |-> None]
    /\ UNCHANGED <<position, zone>>

\* Zone.ZONES = []
Reset ==
    /\ position = None
    /\ ZONES.len # 0
    /\ ZONES' = EmptyList
    /\ result' = [op |-> "reset", args |-> <<TotalPopulation(ZONES)>>,
                  raised |-> "", value |-> None]
    /\ UNCHANGED <<position, zone>>

\* graph._stat_by_age(Zone.ZONES, property_name)
StatByAge(property_name) ==
    /\ position = None
    /\ LET r == stat_by_age(ZONES, property_name)
       IN result' = [op |-> "_stat_by_age", args |-> <<property_name>>,
                     raised |-> r.raised, value |-> r.value]
    /\ UNCHANGED <<ZONES, position, zone>>

Next ==
    \/ \E c \in TestCoordinates : NewPosition(c[1], c[2])
    \/ FindZone
    \/ \E properties \in TestProperties : AddInhabitant(properties)
    \/ AverageAgreeableness
    \/ InitializeZones
    \/ Reset
    \/ \E property_name \in PropertyNames : StatByAge(property_name)

Spec == Init /\ [][Next]_vars

\* the grid alone, probed at many coordinates
NextGrid ==
    \/ \E c \in GridCoordinates : NewPosition(c[1], c[2])
    \/ FindZone
    \/ AverageAgreeableness
    \/ InitializeZones
    \/ Reset

SpecGrid == Init /\ [][NextGrid]_vars

\* ================================================================= claims
\* helpers of the claims' formulas
InhabitantsAt(i) == ListGet(ZONES, i).inhabitants

\* the zone with the same rectangle, given by its other diagonal
OtherDiagonal(z) ==
    [z EXCEPT !.corner1 = [longitude_degrees |-> z.corner1.longitude_degrees,
                           latitude_degrees |-> z.corner2.latitude_degrees],
              !.corner2 = [longitude_degrees |-> z.corner2.longitude_degrees,
                           latitude_degrees |-> z.corner1.latitude_degrees]]

\* <<zone index, place in its inhabitants>> of every inhabitant of age a
AgedAt(a) ==
    {m \in UNION {{<<i, j>> : j \in 1..Len(InhabitantsAt(i))} : i \in Occupied(ZONES)} :
        /\ hasattr(InhabitantsAt(m[1])[m[2]], "age")
        /\ InhabitantsAt(m[1])[m[2]].properties["age"] = a}

RECURSIVE TraitSum(_, _)
TraitSum(members, name) ==
    IF members = {} THEN 0
    ELSE LET m == CHOOSE x \in members : TRUE
             who == InhabitantsAt(m[1])[m[2]]
         IN (IF hasattr(who, name) THEN who.properties[name] ELSE 0)
                + TraitSum(members \ {m}, name)

AllOf(i) == {<<i, j>> : j \in 1..Len(InhabitantsAt(i))}

\* C1: for every valid coordinate, the edge values +180 and +90 included,
\* find_zone_that_contains returns a zone (no IndexError, no failed assertion)
\* and the zone it returns contains the coordinate.
C1_LookupReturnsContainingZone ==
    result.op = "find_zone_that_contains" =>
        /\ result.raised = ""
        /\ contains(ListGet(ZONES, result.value), result.args[1])

\* C2: Position(longitude, latitude) fails exactly when the longitude is
\* outside [-180, 180] or the latitude outside [-90, 90]; when it succeeds the
\* stored degrees are the arguments, and the four bounds are accepted.
C2_PositionRange ==
    result.op = "Position" =>
        LET lon == result.args[1]
            lat == result.args[2]
            outside == \/ lon < -180 * Res \/ lon > 180 * Res
                       \/ lat < -90 * Res \/ lat > 90 * Res
        IN /\ (result.raised # "") <=> outside
           /\ outside => result.raised = "AssertionError" /\ position = None
           /\ ~outside => /\ result.value.longitude_degrees = lon
                          /\ result.value.latitude_degrees = lat
                          /\ position = result.value

C2_BoundsAccepted ==
    /\ result.op = "Position"
    /\ result.raised = ""
    /\ position.longitude_degrees = 180 * Res
    /\ position.latitude_degrees = -90 * Res

\* C3: after _initialize_zones the list holds exactly 64,800 zones, row-major
\* by latitude then longitude: the zone at index i has the corners
\* (-180 + i mod 360, -90 + i div 360) and that point plus (1, 1).
C3_GridLayout ==
    result.op = "_initialize_zones" =>
        /\ Len(ListItems(ZONES)) = 64800
        /\ \A i \in 0..(ZONES.len - 1) :
              LET z == ListGet(ZONES, i + 1)
              IN /\ z.corner1 = [longitude_degrees |-> (-180 + (i % 360)) * Res,
                                 latitude_degrees |-> (-90 + (i \div 360)) * Res]
                 /\ z.corner2 = [longitude_degrees |-> (-180 + (i % 360) + 1) * Res,
                                 latitude_degrees |-> (-90 + (i \div 360) + 1) * Res]

C3_GridInitialized ==
    /\ result.op = "_initialize_zones"
    /\ ZONES.len # 0

\* C4: in a built grid a valid coordinate with longitude < 180 and latitude
\* < 90 is contained by exactly one zone, a coordinate with longitude = 180
\* or latitude = 90 by none, and contains() answers the same whichever
\* diagonal of the rectangle the two corners are.
C4_ExactlyOneZone ==
    (position # None /\ ZONES.len # 0) =>
        LET containing == {i \in 1..ZONES.len : contains(ListGet(ZONES, i), position)}
            mirrored == {i \in 1..ZONES.len :
                            contains(OtherDiagonal(ListGet(ZONES, i)), position)}
            inside == /\ position.longitude_degrees < 180 * Res
                      /\ position.latitude_degrees < 90 * Res
        IN /\ Cardinality(containing) = (IF inside THEN 1 ELSE 0)
           /\ mirrored = containing

C4_CornerPointInBuiltGrid ==
    /\ ZONES.len # 0
    /\ position = [longitude_degrees |-> 100 * Res, latitude_degrees |-> 33 * Res]
    /\ zone # 0

\* C5: what _stat_by_age returns has 100 x-values 0..99 and 100 y-values; the
\* y-value of age a is the sum of the trait over the inhabitants of age a of
\* all the zones divided by their number, and 0 when there is none, so an
\* inhabitant of an age outside 0..99 changes no bucket.
C5_StatByAge ==
    (result.op = "_stat_by_age" /\ result.raised = "") =>
        LET x == result.value.x_values
            y == result.value.y_values
        IN /\ Len(x) = 100
           /\ Len(y) = 100
           /\ \A a \in 0..99 :
                LET members == AgedAt(a)
                IN /\ x[a + 1] = a
                   /\ y[a + 1].den > 0
                   /\ IF members = {} THEN y[a + 1].num = 0
                      ELSE y[a + 1].num * Cardinality(members)
                              = TraitSum(members, result.args[1]) * y[a + 1].den

C5_TwoZonesOneBucket ==
    /\ result.op = "_stat_by_age"
    /\ result.raised = ""
    /\ result.args[1] = "income"
    /\ Cardinality(Occupied(ZONES)) = 2
    /\ result.value.y_values[21] = [num |-> 55, den |-> 2]

C7_MissingTraitReadsAsZero ==
    /\ result.op = "average_agreeableness" =>
            /\ result.raised = ""
            /\ result.value.num * Max(1, Len(InhabitantsAt(result.args[1])))
                  = TraitSum(AllOf(result.args[1]), "agreeableness") * result.value.den
    /\ result.op = "_stat_by_age" => result.raised = ""

\* C8: add_inhabitant(a) makes the zone's inhabitants the previous sequence
\* with a appended (population + 1, also when a is there already) and leaves
\* every other zone and the list of zones as they were.
C8_AddAppends ==
    [][result'.op = "add_inhabitant" =>
        LET i == result'.args[1]
            a == result'.args[2]
        IN /\ ListGet(ZONES', i).inhabitants = Append(ListGet(ZONES, i).inhabitants, a)
           /\ population(ListGet(ZONES', i)) = population(ListGet(ZONES, i)) + 1
           /\ ListGet(ZONES', i).corner1 = ListGet(ZONES, i).corner1
           /\ ListGet(ZONES', i).corner2 = ListGet(ZONES, i).corner2
           /\ ZONES'.len = ZONES.len
           /\ \A j \in 1..ZONES.len : j # i => ListGet(ZONES', j) = ListGet(ZONES, j)
    ]_vars

C8_SameAgentTwice ==
    /\ result.op = "add_inhabitant"
    /\ InhabitantsAt(result.args[1]) = <<result.args[2], result.args[2]>>

\* C9: a lookup builds the grid only when the list is empty: the first one
\* builds the 64,800 cells, a later one leaves the list and every inhabitant
\* list as they were, so the agents added at a position are inhabitants of
\* the zone a later lookup of that position returns.
C9_LookupBuildsOnlyWhenEmpty ==
    [][result'.op = "find_zone_that_contains" =>
        /\ ZONES.len = 0 => ZONES'.len = 64800
        /\ ZONES.len # 0 => ZONES' = ZONES
        /\ result'.raised = "" =>
              \A i \in Occupied(ZONES') : \A j \in 1..Len(ListGet(ZONES', i).inhabitants) :
                  ListGet(ZONES', i).inhabitants[j].position = position => i = zone'
    ]_vars

C9_AgentFoundAgain ==
    /\ result.op = "find_zone_that_contains"
    /\ result.raised = ""
    /\ InhabitantsAt(zone) # <<>>
    /\ InhabitantsAt(zone)[1].position = position

\* C10: a rebuild of the grid (_initialize_zones, or the first lookup after
\* the list was emptied) leaves every zone with population 0, whatever was
\* added before.
C10_RebuildClearsInhabitants ==
    [][(\/ result'.op = "_initialize_zones"
        \/ (result'.op = "find_zone_that_contains" /\ ZONES.len = 0)) =>
        /\ ZONES'.len # 0
        /\ \A i \in 1..ZONES'.len : population(ListGet(ZONES', i)) = 0
    ]_vars

C10_RebuiltOverInhabitants ==
    /\ result.op = "_initialize_zones"
    /\ result.args[1] > 0
    /\ ZONES.len # 0
    /\ Occupied(ZONES) = {}

====
